---- MODULE Spec2Model ----
(***************************************************************************)
(* Model of the California Housing prediction service (src/src/api/main.py)*)
(*                                                                         *)
(* Numbers are fixed point.  The eight request fields are in tenths        *)
(* (AveOccup 0.5 is 5, Longitude -125 is -1250); predictions are in        *)
(* thousandths, the response's rounded values are in thousandths that are  *)
(* multiples of ten.                                                       *)
(***************************************************************************)
EXTENDS Integers, Sequences, FiniteSets, TLC

VARIABLES
    registry,          \* "ok" | "fail": outcome of mlflow.sklearn.load_model
    files,             \* model file name -> "absent" | "ok" | "corrupt"
    scalerFile,        \* models/scaler.joblib: "absent" | "ok" | "corrupt"
    dbWritable,        \* whether logs/predictions.db accepts an INSERT
    clock,             \* what datetime.now() returns
    METRICS_ENABLED,   \* module flag set by the import-time try block
    phase,             \* "init" | "ready" | "failed" (import of main.py)
    model,             \* ml_service.model: "None" or the artifact's name
    scaler,            \* ml_service.scaler: "None" or "scaler"
    model_info,        \* ml_service.model_info: function key -> value
    feature_names,     \* ml_service.feature_names
    log,               \* rows of table predictions, in insertion order
    predictions_total, \* Counter predictions_total
    histogram_count,   \* observations of Histogram prediction_duration_seconds
    modelCalls,        \* number of calls of self.model.predict
    nreq,              \* requests handled so far
    last,              \* the last request handled and its response
    candidate,         \* the field values given to HousingFeatures(...)
    validation,        \* the outcome of HousingFeatures(candidate)
    tableExists,       \* whether table predictions has been created
    report,            \* what the last call of the ModelMonitor returned
    pc,                \* the step the request in progress has reached
    work,              \* the request, batch or value in progress, with
                       \* its intermediate values
    inflight           \* the connections accepted, each with its response

vars == <<registry, files, scalerFile, dbWritable, clock, METRICS_ENABLED,
          phase, model, scaler, model_info, feature_names, log,
          predictions_total, histogram_count, modelCalls, nreq, last,
          candidate, validation, tableExists, report, pc, work,
          inflight>>

envVars == <<registry, files, scalerFile, METRICS_ENABLED>>
storeVars == <<phase, model, scaler, model_info, feature_names>>
meterVars == <<predictions_total, histogram_count, modelCalls>>
validationVars == <<candidate, validation>>
stepVars == <<pc, work, inflight>>
restVars == <<tableExists, report, pc, work, inflight>>

\* ---------------------------------------------------------------- bounds
MaxRequests == 2
MaxClock == 1

\* ------------------------------------------------------------ validation
Fields == <<"MedInc", "HouseAge", "AveRooms", "AveBedrms", "Population",
            "AveOccup", "Latitude", "Longitude">>

FieldSet == {Fields[i] : i \in 1..Len(Fields)}

\* Field(..., ge=, le=) of HousingFeatures, in tenths
Constraints ==
    [MedInc     |-> [ge |-> 0,     le |-> 150],
     HouseAge   |-> [ge |-> 0,     le |-> 1000],
     AveRooms   |-> [ge |-> 10,    le |-> 200],
     AveBedrms  |-> [ge |-> 0,     le |-> 50],
     Population |-> [ge |-> 0,     le |-> 500000],
     AveOccup   |-> [ge |-> 5,     le |-> 200],
     Latitude   |-> [ge |-> 320,   le |-> 420],
     Longitude  |-> [ge |-> -1250, le |-> -1140]]

RangeOkExclusive(f, v) == v > Constraints[f].ge /\ v < Constraints[f].le

RangeOkUpperOnly(f, v) == v <= Constraints[f].le

RangeOkRoomsFromZero(f, v) ==
    /\ v >= (IF f = "AveRooms" THEN 0 ELSE Constraints[f].ge)
    /\ v <= Constraints[f].le

\* the ge/le check of one field
RangeOk(f, v) == v >= Constraints[f].ge /\ v <= Constraints[f].le

\* @validator('AveOccup'): TRUE when it raises ValueError
validate_ave_occup(v) == v <= 0

FieldErrorZeroSkipped(f, v) ==
    IF v = 0 THEN FALSE
    ELSE \/ ~RangeOk(f, v)
         \/ (f = "AveOccup" /\ validate_ave_occup(v))

\* TRUE when validation of field f with value v reports an error: the
\* declared range is checked first, the custom validator only runs on a
\* value that passed it
FieldError(f, v) ==
    IF ~RangeOk(f, v) THEN TRUE
    ELSE f = "AveOccup" /\ validate_ave_occup(v)

ViolationsFirstOnly(req) ==
    LET bad == {i \in 1..Len(Fields) : FieldError(Fields[i], req[Fields[i]])}
    IN  IF bad = {} THEN {}
        ELSE {Fields[CHOOSE i \in bad : \A j \in bad : i <= j]}

\* the fields named in the ValidationError (empty: the request is accepted);
\* every field is validated and every error is collected
Violations(req) == {f \in FieldSet : FieldError(f, req[f])}

Valid(req) == Violations(req) = {}

\* ----------------------------------------------------------- model store
\* dict model_files, in insertion order
ModelOrder == <<"gradient_boosting", "random_forest", "linear_regression">>

ModelNames == {ModelOrder[i] : i \in 1..Len(ModelOrder)}

FileStates == {"absent", "ok", "corrupt"}

\* self.feature_names as set by load_model
FeatureNames ==
    <<"MedInc", "HouseAge", "AveRooms", "AveBedrms", "Population", "AveOccup",
      "Latitude", "Longitude", "rooms_per_household", "bedrooms_per_room",
      "population_per_household">>

\* the dict {} that __init__ assigns to model_info
EmptyDict == [k \in {} |-> ""]

\* dict.get(key, default)
Get(d, k, default) == IF k \in DOMAIN d THEN d[k] ELSE default

\* indexes of the model files for which os.path.exists is true
Existing(fs) == {i \in 1..Len(ModelOrder) : fs[ModelOrder[i]] # "absent"}

LastExisting(fs) ==
    IF Existing(fs) = {} THEN 0
    ELSE CHOOSE i \in Existing(fs) : \A j \in Existing(fs) : i >= j

\* the file the for loop of load_model stops at (0: no file exists)
FirstExisting(fs) ==
    IF Existing(fs) = {} THEN 0
    ELSE CHOOSE i \in Existing(fs) : \A j \in Existing(fs) : i <= j

\* the keys load_model always writes
BaseInfo(now) ==
    [k \in {"model_name", "features", "last_updated"} |->
        CASE k = "model_name"   -> "California Housing Price Predictor"
          [] k = "features"     -> FeatureNames
          [] k = "last_updated" -> now]

\* model_info with the source and version of the artifact that was loaded
InfoWith(source, version, now) ==
    [k \in {"source", "version", "model_name", "features", "last_updated"} |->
        CASE k = "source"       -> source
          [] k = "version"      -> version
          [] k = "model_name"   -> "California Housing Price Predictor"
          [] k = "features"     -> FeatureNames
          [] k = "last_updated" -> now]

\* the result of the inner try/except of load_model: the registry first,
\* then the first existing local file; raised when joblib.load raises
ResolveModel(reg, fs) ==
    IF reg = "ok"
    THEN [raised |-> FALSE, model |-> "registry",
          source |-> "MLflow Registry", version |-> "Production"]
    ELSE LET i == FirstExisting(fs)
         IN  IF i = 0
             THEN [raised |-> FALSE, model |-> "None",
                   source |-> "", version |-> ""]
             ELSE IF fs[ModelOrder[i]] = "corrupt"
             THEN [raised |-> TRUE, model |-> "None",
                   source |-> "", version |-> ""]
             ELSE [raised |-> FALSE, model |-> ModelOrder[i],
                   source |-> ModelOrder[i], version |-> "1.0.0"]

\* MLModelService.load_model: raised is the RuntimeError of its except
load_model(reg, fs, sf, now) ==
    LET r == ResolveModel(reg, fs)
    IN  IF r.raised \/ sf = "corrupt"
        THEN [raised |-> TRUE, model |-> r.model, scaler |-> "None",
              model_info |-> EmptyDict, feature_names |-> <<>>]
        ELSE [raised |-> FALSE,
              model |-> r.model,
              scaler |-> IF sf = "ok" THEN "scaler" ELSE "None",
              model_info |-> IF r.model = "None" THEN BaseInfo(now)
                             ELSE InfoWith(r.source, r.version, now),
              feature_names |-> FeatureNames]

\* MLModelService.setup_database: CREATE TABLE IF NOT EXISTS keeps the rows
\* of an existing table; every error is logged and swallowed
setup_databaseRecreates(rows, writable) == IF writable THEN <<>> ELSE rows

setup_database(rows, writable) == rows

\* whether table predictions exists after setup_database: it is created when
\* the store can be written, and the error is swallowed when it cannot
create_table(exists, writable) == exists \/ writable

\* -------------------------------------------------------------- pipeline
\* n / d rounded to the nearest integer, ties to the even one (round())
RoundHalfEven(n, d) ==
    LET q == n \div d
        r == n - q * d
    IN  IF 2 * r < d THEN q
        ELSE IF 2 * r > d THEN q + 1
        ELSE IF q % 2 = 0 THEN q ELSE q + 1

\* a / b of two columns of the one-row frame, in tenths; a zero denominator
\* gives inf or NaN, which replace() turns into NaN (nan |-> TRUE)
Ratio(a, b) ==
    IF b = 0 THEN [nan |-> TRUE, v |-> 0]
    ELSE [nan |-> FALSE, v |-> (a * 10) \div b]

\* Series.mean() of a column given as a sequence of cells: NaN cells are
\* skipped, and the mean of a column without a number is NaN
RECURSIVE SumOf(_)
SumOf(cells) ==
    IF cells = <<>> THEN 0
    ELSE (IF Head(cells).nan THEN 0 ELSE Head(cells).v) + SumOf(Tail(cells))

ColumnMean(cells) ==
    LET present == {i \in 1..Len(cells) : ~cells[i].nan}
    IN  IF present = {} THEN [nan |-> TRUE, v |-> 0]
        ELSE [nan |-> FALSE, v |-> SumOf(cells) \div Cardinality(present)]

\* df.fillna(df.mean()) for the cell x of the one-row frame: a NaN cell
\* takes the mean of its column, which has no other row
FillNa(x) == IF x.nan THEN ColumnMean(<<x>>) ELSE x

\* scaler.transform(df): centring on the fitted means (tenths)
ScalerMean == <<39, 286, 54, 11, 14255, 31, 356, -1196, 20, 2, 4600>>

Transform(vals) == [i \in 1..Len(vals) |-> vals[i] - ScalerMean[i]]

\* MLModelService.preprocess_input: the 11 columns in frame order, the
\* indexes of the columns that hold NaN, scaled when a scaler is loaded
preprocess_input(features, sc) ==
    LET rph == FillNa(Ratio(features.AveRooms, features.AveOccup))
        bpr == FillNa(Ratio(features.AveBedrms, features.AveRooms))
        pph == FillNa(Ratio(features.Population, features.AveOccup))
        raw == <<features.MedInc, features.HouseAge, features.AveRooms,
                 features.AveBedrms, features.Population, features.AveOccup,
                 features.Latitude, features.Longitude, rph.v, bpr.v, pph.v>>
        nan == {i \in {9, 10, 11} : <<rph, bpr, pph>>[i - 8].nan}
    IN  [vals |-> IF sc # "None" THEN Transform(raw) ELSE raw,
         nan  |-> nan]

\* intercept of each estimator, in thousandths (no output of the estimators
\* nor its product with 0.85 or 1.15 falls on a decimal tie, where binary
\* floating point and decimal rounding could part)
Intercept ==
    [registry |-> 1011, gradient_boosting |-> 1234,
     random_forest |-> 1106, linear_regression |-> -2407]

ModelPredictWarm(m, X) ==
    Intercept[m] + 41 * X.vals[1] + 3 * X.vals[9] - X.vals[2] \div 7
    + 10 * modelCalls

\* self.model.predict(X)[0], in thousandths: the estimators are fitted
\* artifacts, each a fixed function of the feature vector
ModelPredict(m, X) ==
    Intercept[m] + 41 * X.vals[1] + 3 * X.vals[9] - X.vals[2] \div 7

\* one row of table predictions
Row(id, ts, features, prediction, version) ==
    [id |-> id, timestamp |-> ts, input_features |-> features,
     prediction |-> prediction, model_version |-> version]

log_predictionPropagates(rows, features, prediction, writable, now, info) ==
    IF writable
    THEN [raised |-> FALSE,
          rows |-> Append(rows, Row(Len(rows) + 1, now, features, prediction,
                                    Get(info, "version", "unknown")))]
    ELSE [raised |-> TRUE, rows |-> rows]

log_predictionNoCommit(rows, features, prediction, writable, now, info) ==
    [raised |-> FALSE, rows |-> rows]

\* MLModelService.log_prediction: one INSERT, committed; any exception is
\* logged and swallowed, so raised is never TRUE
log_prediction(rows, features, prediction, writable, now, info) ==
    IF writable
    THEN [raised |-> FALSE,
          rows |-> Append(rows, Row(Len(rows) + 1, now, features, prediction,
                                    Get(info, "version", "unknown")))]
    ELSE [raised |-> FALSE, rows |-> rows]

Faults == {"none", "preprocess", "inference"}

\* what a call of predict leaves behind when it changes nothing
Untouched(exc, at) ==
    [exc |-> exc, at |-> at, value |-> 0, rows |-> log,
     total |-> predictions_total, hist |-> histogram_count,
     calls |-> modelCalls]

predictTimesReturnsOnly(features, fault) ==
    IF model = "None" THEN Untouched("Model not loaded", "model")
    ELSE IF fault = "preprocess"
    THEN Untouched("Prediction failed", "preprocess")
    ELSE LET timed == IF METRICS_ENABLED THEN 1 ELSE 0
         IN  IF fault = "inference"
             THEN [Untouched("Prediction failed", "inference") EXCEPT
                      !.calls = modelCalls + 1]
             ELSE LET p == ModelPredict(model,
                                        preprocess_input(features, scaler))
                      l == log_prediction(log, features, p,
                                          dbWritable /\ tableExists,
                                          clock, model_info)
                  IN  [exc |-> "", at |-> "done", value |-> p,
                       rows |-> l.rows,
                       total |-> predictions_total + timed,
                       hist |-> histogram_count + timed,
                       calls |-> modelCalls + 1]

\* MLModelService.predict on the current state.  fault names the step of the
\* try block that raises in this call.  exc is "" when the call returns and
\* else the detail of the exception that leaves it; at is the step that
\* raised ("done": none)
predict(features, fault) ==
    IF model = "None" THEN Untouched("Model not loaded", "model")
    ELSE IF fault = "preprocess"
    THEN Untouched("Prediction failed", "preprocess")
    ELSE LET timed == IF METRICS_ENABLED THEN 1 ELSE 0
         IN  IF fault = "inference"
             THEN [Untouched("Prediction failed", "inference") EXCEPT
                      !.hist = histogram_count + timed,
                      !.calls = modelCalls + 1]
             ELSE LET p == ModelPredict(model,
                                        preprocess_input(features, scaler))
                      l == log_prediction(log, features, p,
                                          dbWritable /\ tableExists,
                                          clock, model_info)
                  IN  IF l.raised
                      THEN [exc |-> "Prediction failed", at |-> "log",
                            value |-> 0, rows |-> l.rows,
                            total |-> predictions_total,
                            hist |-> histogram_count + timed,
                            calls |-> modelCalls + 1]
                      ELSE [exc |-> "", at |-> "done", value |-> p,
                            rows |-> l.rows,
                            total |-> predictions_total + timed,
                            hist |-> histogram_count + timed,
                            calls |-> modelCalls + 1]

\* -------------------------------------------------------------- requests
Features(mi, ha, ar, ab, po, ao, la, lo) ==
    [MedInc |-> mi, HouseAge |-> ha, AveRooms |-> ar, AveBedrms |-> ab,
     Population |-> po, AveOccup |-> ao, Latitude |-> la, Longitude |-> lo]

\* test_features of health_check
Canonical == Features(50, 100, 60, 10, 10000, 30, 350, -1200)

\* valid_input of the tests, to one decimal
Example == Features(83, 410, 70, 10, 3220, 26, 379, -1222)

\* the request bodies the clients of the model send
Requests ==
    {Canonical,
     Example,
     [Example EXCEPT !.MedInc = -10],
     [Example EXCEPT !.AveOccup = 0],
     [Example EXCEPT !.MedInc = -10, !.Latitude = 430]}

NoResponse == [kind |-> "none", status |-> 0]

PredictionResponseFromRounded(p, info, now) ==
    [prediction |-> RoundHalfEven(p, 10),
     model_version |-> Get(info, "version", "unknown"),
     timestamp |-> now,
     confidence_interval |->
         [lower |-> RoundHalfEven(RoundHalfEven(p, 10) * 850, 1000),
          upper |-> RoundHalfEven(RoundHalfEven(p, 10) * 1150, 1000)]]

PredictionResponseWideBand(p, info, now) ==
    [prediction |-> RoundHalfEven(p, 10),
     model_version |-> Get(info, "version", "unknown"),
     timestamp |-> now,
     confidence_interval |-> [lower |-> RoundHalfEven(p * 80, 1000),
                              upper |-> RoundHalfEven(p * 120, 1000)]]

PredictionResponseNoInterval(p, info, now) ==
    [prediction |-> RoundHalfEven(p, 10),
     model_version |-> Get(info, "version", "unknown"),
     timestamp |-> now]

\* the PredictionResponse built by predict_price, values in hundredths
PredictionResponse(p, info, now) ==
    [prediction |-> RoundHalfEven(p, 10),
     model_version |-> Get(info, "version", "unknown"),
     timestamp |-> now,
     confidence_interval |-> [lower |-> RoundHalfEven(p * 85, 1000),
                              upper |-> RoundHalfEven(p * 115, 1000)]]

\* no call of the monitor yet
NoReport == [op |-> "none"]

\* no request in progress
NoWork == [kind |-> "none"]

\* the outcome of a HousingFeatures(...) call that has not run yet
Pending == [done |-> FALSE, ok |-> FALSE, errors |-> {}]

\* ---------------------------------------------------------------- states
Init ==
    /\ registry \in {"ok", "fail"}
    /\ files \in [ModelNames -> FileStates]
    /\ scalerFile \in FileStates
    /\ METRICS_ENABLED \in BOOLEAN
    /\ dbWritable = TRUE
    /\ clock = 0
    /\ phase = "init"
    /\ model = "None"
    /\ scaler = "None"
    /\ model_info = EmptyDict
    /\ feature_names = <<>>
    /\ log = <<>>
    /\ predictions_total = 0
    /\ histogram_count = 0
    /\ modelCalls = 0
    /\ nreq = 0
    /\ last = NoResponse
    /\ candidate = Canonical
    /\ validation = Pending
    /\ tableExists = FALSE
    /\ report = NoReport
    /\ pc = "idle"
    /\ work = NoWork
    /\ inflight = <<>>

\* ml_service = MLModelService(): load_model, then setup_database; an
\* exception of load_model aborts the import and no request is ever served
Startup ==
    /\ phase = "init"
    /\ LET r == load_model(registry, files, scalerFile, clock)
       IN  /\ phase' = IF r.raised THEN "failed" ELSE "ready"
           /\ model' = r.model
           /\ scaler' = r.scaler
           /\ model_info' = r.model_info
           /\ feature_names' = r.feature_names
           /\ log' = IF r.raised THEN log
                     ELSE setup_database(log, dbWritable)
           /\ tableExists' = IF r.raised THEN tableExists
                             ELSE create_table(tableExists, dbWritable)
    /\ UNCHANGED <<envVars, dbWritable, clock, meterVars, nreq, last,
                   validationVars, report, stepVars>>

PredictPriceDropsScalerOnError(req, fault) ==
    /\ phase = "ready"
    /\ nreq < MaxRequests
    /\ nreq' = nreq + 1
    /\ IF ~Valid(req)
       THEN /\ last' = [kind |-> "predict", req |-> req,
                        at |-> "validation", status |-> 422,
                        body |-> [detail |-> Violations(req)]]
            /\ UNCHANGED <<log, meterVars, scaler>>
       ELSE LET r == predict(req, fault)
            IN  /\ log' = r.rows
                /\ predictions_total' = r.total
                /\ histogram_count' = r.hist
                /\ modelCalls' = r.calls
                /\ scaler' = IF r.exc # "" THEN "None" ELSE scaler
                /\ last' = IF r.exc # ""
                           THEN [kind |-> "predict", req |-> req,
                                 at |-> r.at, status |-> 500,
                                 body |-> [detail |-> r.exc]]
                           ELSE [kind |-> "predict", req |-> req,
                                 at |-> r.at, status |-> 200,
                                 body |-> PredictionResponse(r.value,
                                              model_info, clock)]
    /\ UNCHANGED <<envVars, dbWritable, clock, phase, model, model_info,
                   feature_names, validationVars, restVars>>

\* POST /predict: the body is validated before predict_price is entered
PredictPrice(req, fault) ==
    /\ phase = "ready"
    /\ nreq < MaxRequests
    /\ nreq' = nreq + 1
    /\ IF ~Valid(req)
       THEN /\ last' = [kind |-> "predict", req |-> req,
                        at |-> "validation", status |-> 422,
                        body |-> [detail |-> Violations(req)]]
            /\ UNCHANGED <<log, meterVars>>
       ELSE LET r == predict(req, fault)
            IN  /\ log' = r.rows
                /\ predictions_total' = r.total
                /\ histogram_count' = r.hist
                /\ modelCalls' = r.calls
                /\ last' = IF r.exc # ""
                           THEN [kind |-> "predict", req |-> req,
                                 at |-> r.at, status |-> 500,
                                 body |-> [detail |-> r.exc]]
                           ELSE [kind |-> "predict", req |-> req,
                                 at |-> r.at, status |-> 200,
                                 body |-> PredictionResponse(r.value,
                                              model_info, clock)]
    /\ UNCHANGED <<envVars, dbWritable, clock, storeVars, validationVars,
                   restVars>>

HealthCheckModelLoadedOnly(fault) ==
    /\ phase = "ready"
    /\ nreq < MaxRequests
    /\ nreq' = nreq + 1
    /\ last' = IF model = "None"
               THEN [kind |-> "health", at |-> "model", status |-> 200,
                     body |-> [status |-> "unhealthy",
                               error |-> "Model not loaded",
                               timestamp |-> clock]]
               ELSE [kind |-> "health", at |-> "done", status |-> 200,
                     body |-> [status |-> "healthy",
                               model_loaded |-> TRUE,
                               scaler_loaded |-> scaler # "None",
                               timestamp |-> clock]]
    /\ UNCHANGED <<envVars, dbWritable, clock, storeVars, log, meterVars,
                   validationVars, restVars>>

\* GET /health: one predict call with the fixed input
HealthCheck(fault) ==
    /\ phase = "ready"
    /\ nreq < MaxRequests
    /\ nreq' = nreq + 1
    /\ LET r == predict(Canonical, fault)
       IN  /\ log' = r.rows
           /\ predictions_total' = r.total
           /\ histogram_count' = r.hist
           /\ modelCalls' = r.calls
           /\ last' = IF r.exc # ""
                      THEN [kind |-> "health", at |-> r.at, status |-> 200,
                            body |-> [status |-> "unhealthy",
                                      error |-> r.exc,
                                      timestamp |-> clock]]
                      ELSE [kind |-> "health", at |-> r.at, status |-> 200,
                            body |-> [status |-> "healthy",
                                      model_loaded |-> model # "None",
                                      scaler_loaded |-> scaler # "None",
                                      timestamp |-> clock]]
    /\ UNCHANGED <<envVars, dbWritable, clock, storeVars, validationVars,
                   restVars>>

\* GET /model/info
GetModelInfo ==
    /\ phase = "ready"
    /\ nreq < MaxRequests
    /\ nreq' = nreq + 1
    /\ last' = [kind |-> "info", status |-> 200,
                body |-> [model_name |-> Get(model_info, "model_name",
                                             "Unknown"),
                          model_version |-> Get(model_info, "version",
                                                "Unknown"),
                          features |-> feature_names,
                          last_updated |-> Get(model_info, "last_updated",
                                               "Unknown")]]
    /\ UNCHANGED <<envVars, dbWritable, clock, storeVars, log, meterVars,
                   validationVars, restVars>>

\* GET /metrics
GetMetrics ==
    /\ phase = "ready"
    /\ nreq < MaxRequests
    /\ nreq' = nreq + 1
    /\ last' = IF METRICS_ENABLED
               THEN [kind |-> "metrics", status |-> 200,
                     media_type |-> "text/plain",
                     body |-> [predictions_total |-> predictions_total,
                               prediction_duration_seconds_count |->
                                   histogram_count]]
               ELSE [kind |-> "metrics", status |-> 200,
                     media_type |-> "application/json",
                     body |-> [message |-> "Metrics not available"]]
    /\ UNCHANGED <<envVars, dbWritable, clock, storeVars, log, meterVars,
                   validationVars, restVars>>

\* the log store becomes unwritable, or writable again
SetLogWritable ==
    /\ dbWritable' = ~dbWritable
    /\ UNCHANGED <<envVars, clock, storeVars, log, meterVars, nreq, last,
                   validationVars, restVars>>

\* time passes
Tick ==
    /\ clock < MaxClock
    /\ clock' = clock + 1
    /\ UNCHANGED <<envVars, dbWritable, storeVars, log, meterVars, nreq, last,
                   validationVars, restVars>>

Next ==
    \/ Startup
    \/ \E req \in Requests, fault \in Faults : PredictPrice(req, fault)
    \/ \E fault \in Faults : HealthCheck(fault)
    \/ GetModelInfo
    \/ GetMetrics
    \/ SetLogWritable
    \/ Tick

Spec == Init /\ [][Next]_vars

\* ------------------------------------------- validation on its own
\* the values tried for field f: each bound, one unit (10 tenths) outside
\* each bound, and 0 for AveOccup
CandidateValues(f) ==
    {Constraints[f].ge - 10, Constraints[f].ge,
     Constraints[f].le, Constraints[f].le + 10}
    \cup (IF f = "AveOccup" THEN {0} ELSE {})

InitValidate ==
    /\ registry = "fail"
    /\ files = [n \in ModelNames |-> "absent"]
    /\ scalerFile = "absent"
    /\ METRICS_ENABLED = TRUE
    /\ dbWritable = TRUE
    /\ clock = 0
    /\ phase = "init"
    /\ model = "None"
    /\ scaler = "None"
    /\ model_info = EmptyDict
    /\ feature_names = <<>>
    /\ log = <<>>
    /\ predictions_total = 0
    /\ histogram_count = 0
    /\ modelCalls = 0
    /\ nreq = 0
    /\ last = NoResponse
    /\ \E mi \in CandidateValues("MedInc"), ha \in CandidateValues("HouseAge"),
          ar \in CandidateValues("AveRooms"),
          ab \in CandidateValues("AveBedrms"),
          po \in CandidateValues("Population"),
          ao \in CandidateValues("AveOccup"),
          la \in CandidateValues("Latitude"),
          lo \in CandidateValues("Longitude") :
            candidate = Features(mi, ha, ar, ab, po, ao, la, lo)
    /\ validation = Pending
    /\ tableExists = FALSE
    /\ report = NoReport
    /\ pc = "idle"
    /\ work = NoWork
    /\ inflight = <<>>

\* HousingFeatures(**candidate): the model is built or ValidationError is
\* raised with the errors of all the fields
Construct ==
    /\ ~validation.done
    /\ validation' = [done |-> TRUE, ok |-> Valid(candidate),
                      errors |-> Violations(candidate)]
    /\ UNCHANGED <<envVars, dbWritable, clock, storeVars, log, meterVars,
                   nreq, last, candidate, restVars>>

\* the derived columns of preprocess_input for the record just built: the
\* three ratios after replace() and before fillna(), and the frame that is
\* handed on
Engineer ==
    /\ validation.done
    /\ validation.ok
    /\ work = NoWork
    /\ work' = [kind |-> "engineered",
                derived |-> <<Ratio(candidate.AveRooms, candidate.AveOccup),
                              Ratio(candidate.AveBedrms, candidate.AveRooms),
                              Ratio(candidate.Population,
                                    candidate.AveOccup)>>,
                X |-> preprocess_input(candidate, "None")]
    /\ UNCHANGED <<envVars, dbWritable, clock, storeVars, log, meterVars,
                   nreq, last, validationVars, tableExists, report, pc,
                   inflight>>

NextValidate == Construct \/ Engineer

SpecValidate == InitValidate /\ [][NextValidate]_vars

\* ------------------------------------------- restarts and the monitor
\* the process is stopped and started again: what it held in memory (the
\* store, the collectors) is gone, the files and the log store are kept
Restart ==
    /\ phase \in {"ready", "failed"}
    /\ phase' = "init"
    /\ model' = "None"
    /\ scaler' = "None"
    /\ model_info' = EmptyDict
    /\ feature_names' = <<>>
    /\ predictions_total' = 0
    /\ histogram_count' = 0
    /\ modelCalls' = 0
    /\ UNCHANGED <<envVars, dbWritable, clock, log, nreq, last,
                   validationVars, restVars>>

AtOrAfterStrict(rows, threshold) ==
    LET Keep(r) == r.timestamp > threshold IN SelectSeq(rows, Keep)

\* WHERE timestamp >= ?
AtOrAfter(rows, threshold) ==
    LET Keep(r) == r.timestamp >= threshold IN SelectSeq(rows, Keep)

\* WHERE timestamp < ?
Before(rows, threshold) ==
    LET Keep(r) == r.timestamp < threshold IN SelectSeq(rows, Keep)

\* ORDER BY timestamp DESC: every arrangement of the rows in which no row
\* comes before a newer one; the order of rows with equal timestamps is not
\* defined
RECURSIVE Orderings(_)
Orderings(rows) ==
    IF rows = <<>> THEN {<<>>}
    ELSE LET newest == {i \in 1..Len(rows) :
                           \A j \in 1..Len(rows) :
                               rows[i].timestamp >= rows[j].timestamp}
             Without(i) == SubSeq(rows, 1, i - 1)
                           \o SubSeq(rows, i + 1, Len(rows))
         IN  UNION {{<<rows[i]>> \o q : q \in Orderings(Without(i))} :
                        i \in newest}

\* SELECT * FROM predictions WHERE timestamp >= ? ORDER BY timestamp DESC:
\* the results the query may give
QueryResults(rows, threshold) == Orderings(AtOrAfter(rows, threshold))

\* df['timestamp'].min() and .max()
MinStamp(q) ==
    CHOOSE t \in {q[i].timestamp : i \in 1..Len(q)} :
        \A i \in 1..Len(q) : t <= q[i].timestamp

MaxStamp(q) ==
    CHOOSE t \in {q[i].timestamp : i \in 1..Len(q)} :
        \A i \in 1..Len(q) : t >= q[i].timestamp

\* ModelMonitor.get_prediction_stats for the result q of its query (exists:
\* the table is there, else the query raises and the error is returned)
get_prediction_stats(exists, q, since) ==
    IF ~exists
    THEN [op |-> "stats", since |-> since,
          error |-> "no such table: predictions"]
    ELSE IF q = <<>>
    THEN [op |-> "stats", since |-> since,
          message |-> "No predictions found", count |-> 0]
    ELSE [op |-> "stats", since |-> since, total_predictions |-> Len(q),
          start |-> MinStamp(q), end |-> MaxStamp(q)]

\* ModelMonitor.get_prediction_stats(days), days in ticks of the clock
GetPredictionStats(days) ==
    /\ \E q \in QueryResults(log, clock - days) :
          report' = get_prediction_stats(tableExists, q, clock - days)
    /\ UNCHANGED <<envVars, dbWritable, clock, storeVars, log, meterVars,
                   nreq, last, validationVars, tableExists, stepVars>>

\* ModelMonitor.export_logs(format, days): the rows written to the file
ExportLogs(days) ==
    /\ \E q \in QueryResults(log, clock - days) :
          report' =
             IF ~tableExists
             THEN [op |-> "export", since |-> clock - days,
                   error |-> "no such table: predictions"]
             ELSE IF q = <<>>
             THEN [op |-> "export", since |-> clock - days,
                   message |-> "No data to export"]
             ELSE [op |-> "export", since |-> clock - days, rows |-> q]
    /\ UNCHANGED <<envVars, dbWritable, clock, storeVars, log, meterVars,
                   nreq, last, validationVars, tableExists, stepVars>>

NextOps ==
    \/ Next
    \/ Restart
    \/ \E days \in {MaxClock} : GetPredictionStats(days)
    \/ \E days \in {MaxClock} : ExportLogs(days)

\* the deployments followed through restarts: metrics enabled, a scaler on
\* disk, and the three model files all missing, all loadable or all broken
InitOps ==
    /\ Init
    /\ METRICS_ENABLED
    /\ scalerFile = "ok"
    /\ \E st \in FileStates : files = [n \in ModelNames |-> st]

SpecOps == InitOps /\ [][NextOps]_vars

\* ------------------------------------------- the monitor on a given log
\* timedelta(days=1) of get_model_health, timedelta(days=7) and
\* timedelta(days=14) of check_data_drift, LIMIT 100 of its queries, the
\* volume of get_model_health below which the score is reduced
HealthDays == 1

LowVolume == 10

\* the ticks of the clock in a day, when the monitor is followed
TicksPerDay == 10

DriftRecentDays == 7

DriftOlderDays == 14

DriftLimit == 100

\* the first n rows of a result
Limit(q, n) == SubSeq(q, 1, IF Len(q) < n THEN Len(q) ELSE n)

\* df['prediction'].sum(), thousandths
RECURSIVE SumPredictions(_)
SumPredictions(q) ==
    IF q = <<>> THEN 0 ELSE Head(q).prediction + SumPredictions(Tail(q))

\* abs()
Magnitude(x) == IF x < 0 THEN -x ELSE x

\* abs(recent_mean - older_mean) / older_mean if older_mean != 0 else 0, as
\* the fraction num / den of integers: the means are sr / Len(recent) and
\* so / Len(older), and the denominator keeps the sign of older_mean
drift_score(recent, older) ==
    LET sr == SumPredictions(recent)
        so == SumPredictions(older)
    IN  IF so = 0 THEN [num |-> 0, den |-> 1]
        ELSE [num |-> Magnitude(sr * Len(older) - so * Len(recent)),
              den |-> Len(recent) * so]

\* score > 0.1 for score = num / den
AboveThreshold(score) == score.den > 0 /\ 10 * score.num > score.den

\* ModelMonitor.check_data_drift for the results of its two queries
check_data_drift(exists, recent, older) ==
    IF ~exists
    THEN [op |-> "drift", error |-> "no such table: predictions"]
    ELSE IF recent = <<>> \/ older = <<>>
    THEN [op |-> "drift",
          message |-> "Insufficient data for drift detection"]
    ELSE [op |-> "drift",
          drift_detected |-> AboveThreshold(drift_score(recent, older)),
          drift_score |-> drift_score(recent, older),
          recent_mean |-> [num |-> SumPredictions(recent),
                           den |-> Len(recent)],
          older_mean |-> [num |-> SumPredictions(older),
                          den |-> Len(older)]]

get_model_healthDriftOnly(stats, drift) ==
    LET issues == (IF Get(drift, "drift_detected", FALSE)
                   THEN {"Data drift detected"} ELSE {})
        health_score == 100 - (IF "Data drift detected" \in issues
                               THEN 20 ELSE 0)
    IN  [op |-> "health",
         status |-> IF health_score >= 90 THEN "healthy"
                    ELSE IF health_score >= 70 THEN "warning"
                    ELSE "critical",
         health_score |-> health_score,
         issues |-> issues,
         recent_stats |-> stats,
         drift_info |-> drift]

\* ModelMonitor.get_model_health for the results of get_prediction_stats(1)
\* and check_data_drift(), neither of which raises
get_model_health(stats, drift) ==
    LET total == Get(stats, "total_predictions", 0)
        issues == (IF total = 0 THEN {"No recent predictions"}
                   ELSE IF total < LowVolume THEN {"Low prediction volume"}
                   ELSE {})
                  \cup (IF Get(drift, "drift_detected", FALSE)
                        THEN {"Data drift detected"} ELSE {})
        health_score == 100
                        - (IF "No recent predictions" \in issues THEN 30
                           ELSE 0)
                        - (IF "Low prediction volume" \in issues THEN 10
                           ELSE 0)
                        - (IF "Data drift detected" \in issues THEN 20
                           ELSE 0)
    IN  [op |-> "health",
         status |-> IF health_score >= 90 THEN "healthy"
                    ELSE IF health_score >= 70 THEN "warning"
                    ELSE "critical",
         health_score |-> health_score,
         issues |-> issues,
         recent_stats |-> stats,
         drift_info |-> drift]

\* the results the two queries of check_data_drift may give at time now
RecentResults(rows, now) ==
    {Limit(q, DriftLimit) :
         q \in QueryResults(rows, now - DriftRecentDays * TicksPerDay)}

OlderResults(rows, now) ==
    {Limit(q, DriftLimit) :
         q \in Orderings(Before(rows, now - DriftOlderDays * TicksPerDay))}

\* ModelMonitor.check_data_drift()
CheckDataDrift ==
    /\ \E recent \in RecentResults(log, clock),
          older \in OlderResults(log, clock) :
          report' = check_data_drift(tableExists, recent, older)
    /\ UNCHANGED <<envVars, dbWritable, clock, storeVars, log, meterVars,
                   nreq, last, validationVars, tableExists, stepVars>>

\* ModelMonitor.get_model_health()
GetModelHealth ==
    /\ \E q \in QueryResults(log, clock - HealthDays * TicksPerDay),
          recent \in RecentResults(log, clock),
          older \in OlderResults(log, clock) :
          report' = get_model_health(
                        get_prediction_stats(tableExists, q,
                                      clock - HealthDays * TicksPerDay),
                        check_data_drift(tableExists, recent, older))
    /\ UNCHANGED <<envVars, dbWritable, clock, storeVars, log, meterVars,
                   nreq, last, validationVars, tableExists, stepVars>>

\* the most rows of a log the monitor is run on
MaxRows == 3

\* the time at which the monitor runs
Now == (DriftOlderDays + 1) * TicksPerDay

\* the times at which rows were written: before both windows, on the edge
\* of the older window, on the edge of the recent window, on the edge of the
\* last day
Stamps ==
    {Now - (DriftOlderDays + 1) * TicksPerDay,
     Now - DriftOlderDays * TicksPerDay,
     Now - DriftRecentDays * TicksPerDay,
     Now - HealthDays * TicksPerDay}

\* the values the model returned for the rows, thousandths
LoggedValues == {-1000, 1000, 1234}

\* the version logged with the rows
LoggedInfo == InfoWith("random_forest", "1.0.0", 0)

\* the logs of at most n rows that calls of log_prediction leave behind
RECURSIVE WrittenLogs(_)
WrittenLogs(n) ==
    IF n = 0 THEN {<<>>}
    ELSE WrittenLogs(n - 1) \cup
         {log_prediction(rows, Canonical, p, TRUE, ts, LoggedInfo).rows :
              rows \in {l \in WrittenLogs(n - 1) : Len(l) = n - 1},
              p \in LoggedValues, ts \in Stamps}

\* rows followed by k rows of value p written one tick apart during the
\* last day
RECURSIVE WithBurst(_, _, _)
WithBurst(rows, k, p) ==
    IF k = 0 THEN rows
    ELSE log_prediction(WithBurst(rows, k - 1, p), Canonical, p, TRUE,
                        Now - HealthDays * TicksPerDay + (k - 1),
                        LoggedInfo).rows

\* the logs the monitor is run on: every short log, and the shorter ones
\* followed by a day of LowVolume - 1 or LowVolume predictions
MonitoredLogs ==
    WrittenLogs(MaxRows) \cup
    {WithBurst(rows, k, p) : rows \in WrittenLogs(MaxRows - 1),
                             k \in {LowVolume - 1, LowVolume},
                             p \in LoggedValues}

InitMonitor ==
    /\ registry = "fail"
    /\ files = [n \in ModelNames |-> "absent"]
    /\ scalerFile = "absent"
    /\ METRICS_ENABLED = TRUE
    /\ dbWritable = TRUE
    /\ clock = Now
    /\ phase = "init"
    /\ model = "None"
    /\ scaler = "None"
    /\ model_info = EmptyDict
    /\ feature_names = <<>>
    /\ log \in MonitoredLogs
    /\ predictions_total = 0
    /\ histogram_count = 0
    /\ modelCalls = 0
    /\ nreq = 0
    /\ last = NoResponse
    /\ candidate = Canonical
    /\ validation = Pending
    /\ tableExists \in {b \in BOOLEAN : log # <<>> => b}
    /\ report = NoReport
    /\ pc = "idle"
    /\ work = NoWork
    /\ inflight = <<>>

\* one call of the monitor on the log
NextMonitor ==
    \/ /\ report = NoReport
       /\ \E days \in {HealthDays, DriftRecentDays, 30} :
             GetPredictionStats(days * TicksPerDay)
    \/ /\ report = NoReport
       /\ \E days \in {HealthDays, DriftRecentDays, 30} :
             ExportLogs(days * TicksPerDay)
    \/ report = NoReport /\ CheckDataDrift
    \/ report = NoReport /\ GetModelHealth

SpecMonitor == InitMonitor /\ [][NextMonitor]_vars

\* ------------------------------------------- the training frame
\* the columns of the frame of load_data (housing.feature_names)
DataColumns ==
    <<"MedInc", "HouseAge", "AveRooms", "AveBedrms", "Population", "AveOccup",
      "Latitude", "Longitude">>

\* the columns preprocess_data and preprocess_input add, in that order
DerivedColumns ==
    <<"rooms_per_household", "bedrooms_per_room", "population_per_household">>

\* the columns of the frame preprocess_input builds from features.dict()
InputColumns == Fields \o DerivedColumns

preprocess_dataBedroomsPerHousehold(batch) ==
    LET Derived(r) == <<Ratio(r.AveRooms, r.AveOccup),
                        Ratio(r.AveBedrms, r.AveOccup),
                        Ratio(r.Population, r.AveOccup)>>
        Cells(r) == [i \in 1..11 |->
                        IF i <= 8 THEN [nan |-> FALSE, v |-> r[DataColumns[i]]]
                        ELSE Derived(r)[i - 8]]
        frame == [k \in 1..Len(batch) |-> Cells(batch[k])]
        Mean(i) == ColumnMean([k \in 1..Len(batch) |-> frame[k][i]])
    IN  [columns |-> DataColumns \o DerivedColumns,
         rows |-> [k \in 1..Len(batch) |->
                      [i \in 1..11 |-> IF frame[k][i].nan THEN Mean(i)
                                       ELSE frame[k][i]]]]

\* DataProcessor.preprocess_data(X, y) for the rows of X: the three ratios
\* are added, inf becomes NaN, and every NaN cell takes the mean of its
\* column, which is NaN when the column holds no number
preprocess_data(batch) ==
    LET Derived(r) == <<Ratio(r.AveRooms, r.AveOccup),
                        Ratio(r.AveBedrms, r.AveRooms),
                        Ratio(r.Population, r.AveOccup)>>
        Cells(r) == [i \in 1..11 |->
                        IF i <= 8 THEN [nan |-> FALSE, v |-> r[DataColumns[i]]]
                        ELSE Derived(r)[i - 8]]
        frame == [k \in 1..Len(batch) |-> Cells(batch[k])]
        Mean(i) == ColumnMean([k \in 1..Len(batch) |-> frame[k][i]])
    IN  [columns |-> DataColumns \o DerivedColumns,
         rows |-> [k \in 1..Len(batch) |->
                      [i \in 1..11 |-> IF frame[k][i].nan THEN Mean(i)
                                       ELSE frame[k][i]]]]

\* the most rows of a batch
MaxBatch == 3

\* the rows of the batches: two ordinary block groups, one on the bounds
\* of the request schema, one without occupants, one without rooms, one
\* without rooms and bedrooms
BatchRows ==
    {Canonical, Example,
     [Example EXCEPT !.AveOccup = 5, !.AveRooms = 200],
     [Example EXCEPT !.AveOccup = 0],
     [Example EXCEPT !.AveRooms = 0],
     [Example EXCEPT !.AveRooms = 0, !.AveBedrms = 0]}

RECURSIVE Batches(_)
Batches(n) ==
    IF n = 0 THEN {<<>>}
    ELSE Batches(n - 1) \cup
         {Append(b, r) : b \in {c \in Batches(n - 1) : Len(c) = n - 1},
                         r \in BatchRows}

InitBatch ==
    /\ registry = "fail"
    /\ files = [n \in ModelNames |-> "absent"]
    /\ scalerFile = "absent"
    /\ METRICS_ENABLED = TRUE
    /\ dbWritable = TRUE
    /\ clock = 0
    /\ phase = "init"
    /\ model = "None"
    /\ scaler = "None"
    /\ model_info = EmptyDict
    /\ feature_names = <<>>
    /\ log = <<>>
    /\ predictions_total = 0
    /\ histogram_count = 0
    /\ modelCalls = 0
    /\ nreq = 0
    /\ last = NoResponse
    /\ candidate = Canonical
    /\ validation = Pending
    /\ tableExists = FALSE
    /\ report = NoReport
    /\ pc = "idle"
    /\ \E b \in Batches(MaxBatch) : work = [kind |-> "batch", X |-> b]
    /\ inflight = <<>>

\* DataProcessor.preprocess_data on the batch
PreprocessData ==
    /\ work.kind = "batch"
    /\ work' = [kind |-> "preprocessed", X |-> work.X,
                out |-> preprocess_data(work.X)]
    /\ UNCHANGED <<envVars, dbWritable, clock, storeVars, log, meterVars,
                   nreq, last, validationVars, tableExists, report, pc,
                   inflight>>

\* the only row of the batch is sent as a request, accepted, and
\* preprocess_input builds its frame (no scaler)
PreprocessRow ==
    /\ work.kind = "preprocessed"
    /\ Len(work.X) = 1
    /\ Valid(work.X[1])
    /\ work' = [kind |-> "served", X |-> work.X, out |-> work.out,
                columns |-> InputColumns,
                frame |-> preprocess_input(work.X[1], "None")]
    /\ UNCHANGED <<envVars, dbWritable, clock, storeVars, log, meterVars,
                   nreq, last, validationVars, tableExists, report, pc,
                   inflight>>

NextBatch == PreprocessData \/ PreprocessRow

SpecBatch == InitBatch /\ [][NextBatch]_vars

\* ------------------------------------------- the response for any value
\* the largest magnitude of the values tried around zero, thousandths
MaxValue == 60

\* the values the estimator may return for an accepted request: a fitted
\* regressor is not bound to positive outputs
ModelValues == (-MaxValue..MaxValue) \cup LoggedValues

InitInterval ==
    /\ registry = "fail"
    /\ files = [n \in ModelNames |-> "absent"]
    /\ scalerFile = "absent"
    /\ METRICS_ENABLED = TRUE
    /\ dbWritable = TRUE
    /\ clock = 0
    /\ phase = "init"
    /\ model = "None"
    /\ scaler = "None"
    /\ model_info = EmptyDict
    /\ feature_names = <<>>
    /\ log = <<>>
    /\ predictions_total = 0
    /\ histogram_count = 0
    /\ modelCalls = 0
    /\ nreq = 0
    /\ last = NoResponse
    /\ candidate = Canonical
    /\ validation = Pending
    /\ tableExists = FALSE
    /\ report = NoReport
    /\ pc = "idle"
    /\ \E p \in ModelValues : work = [kind |-> "value", p |-> p]
    /\ inflight = <<>>

\* predict has returned the value: predict_price builds the response
BuildResponse ==
    /\ work.kind = "value"
    /\ work' = [kind |-> "answered", p |-> work.p]
    /\ last' = [kind |-> "predict", req |-> Canonical, at |-> "done",
                status |-> 200,
                body |-> PredictionResponse(work.p, LoggedInfo, clock)]
    /\ UNCHANGED <<envVars, dbWritable, clock, storeVars, log, meterVars,
                   nreq, validationVars, tableExists, report, pc, inflight>>

NextInterval == BuildResponse

SpecInterval == InitInterval /\ [][NextInterval]_vars

\* ------------------------------------------- one request, step by step
\* the response of a request that ended in an exception
ErrorResponse(w, code, detail, at, now) ==
    IF w.kind = "health"
    THEN [kind |-> "health", at |-> at, status |-> 200,
          body |-> [status |-> "unhealthy", error |-> detail,
                    timestamp |-> now]]
    ELSE [kind |-> "predict", req |-> w.req, at |-> at, status |-> code,
          body |-> [detail |-> detail]]

\* a request arrives: POST /predict with a body, or GET /health, which
\* builds its own input
Receive(kind, req, fault) ==
    /\ phase = "ready"
    /\ pc = "idle"
    /\ nreq < MaxRequests
    /\ kind = "health" => req = Canonical
    /\ pc' = "received"
    /\ work' = [kind |-> kind, req |-> req, fault |-> fault]
    /\ UNCHANGED <<envVars, dbWritable, clock, storeVars, log, meterVars,
                   nreq, last, validationVars, tableExists, report, inflight>>

\* HousingFeatures is built from the input
StepValidate ==
    /\ pc = "received"
    /\ IF Valid(work.req)
       THEN /\ pc' = "validated"
            /\ UNCHANGED <<nreq, last>>
       ELSE /\ pc' = "error"
            /\ nreq' = nreq + 1
            /\ last' = [kind |-> work.kind, req |-> work.req,
                        at |-> "validation", status |-> 422,
                        body |-> [detail |-> Violations(work.req)]]
    /\ UNCHANGED <<envVars, dbWritable, clock, storeVars, log, meterVars,
                   validationVars, tableExists, report, inflight, work>>

\* predict is entered: the model check, then the derived columns
StepEngineer ==
    /\ pc = "validated"
    /\ IF model = "None"
       THEN /\ pc' = "error"
            /\ nreq' = nreq + 1
            /\ last' = ErrorResponse(work, 500, "Model not loaded", "model",
                                     clock)
            /\ work' = work
       ELSE /\ pc' = "engineered"
            /\ work' = [kind |-> work.kind, req |-> work.req,
                        fault |-> work.fault,
                        X |-> preprocess_input(work.req, "None")]
            /\ UNCHANGED <<nreq, last>>
    /\ UNCHANGED <<envVars, dbWritable, clock, storeVars, log, meterVars,
                   validationVars, tableExists, report, inflight>>

\* the scaler is applied when there is one
StepScale ==
    /\ pc = "engineered"
    /\ IF work.fault = "preprocess"
       THEN /\ pc' = "error"
            /\ nreq' = nreq + 1
            /\ last' = ErrorResponse(work, 500, "Prediction failed",
                                     "preprocess", clock)
            /\ work' = work
       ELSE /\ pc' = "scaled"
            /\ work' = [work EXCEPT !.X = preprocess_input(work.req, scaler)]
            /\ UNCHANGED <<nreq, last>>
    /\ UNCHANGED <<envVars, dbWritable, clock, storeVars, log, meterVars,
                   validationVars, tableExists, report, inflight>>

StepInferSwallows ==
    /\ pc = "scaled"
    /\ modelCalls' = modelCalls + 1
    /\ histogram_count' = histogram_count + (IF METRICS_ENABLED THEN 1 ELSE 0)
    /\ pc' = "inferred"
    /\ work' = [kind |-> work.kind, req |-> work.req, fault |-> work.fault,
                X |-> work.X,
                p |-> IF work.fault = "inference" THEN 0
                      ELSE ModelPredict(model, work.X)]
    /\ UNCHANGED <<nreq, last>>
    /\ UNCHANGED <<envVars, dbWritable, clock, storeVars, log,
                   predictions_total, validationVars, tableExists, report,
                   inflight>>

\* self.model.predict(X)[0] inside the timer, which observes the duration
\* whether the call returns or raises
StepInfer ==
    /\ pc = "scaled"
    /\ modelCalls' = modelCalls + 1
    /\ histogram_count' = histogram_count + (IF METRICS_ENABLED THEN 1 ELSE 0)
    /\ IF work.fault = "inference"
       THEN /\ pc' = "error"
            /\ nreq' = nreq + 1
            /\ last' = ErrorResponse(work, 500, "Prediction failed",
                                     "inference", clock)
            /\ work' = work
       ELSE /\ pc' = "inferred"
            /\ work' = [kind |-> work.kind, req |-> work.req,
                        fault |-> work.fault, X |-> work.X,
                        p |-> ModelPredict(model, work.X)]
            /\ UNCHANGED <<nreq, last>>
    /\ UNCHANGED <<envVars, dbWritable, clock, storeVars, log,
                   predictions_total, validationVars, tableExists, report,
                   inflight>>

\* log_prediction is called
StepLog ==
    /\ pc = "inferred"
    /\ LET l == log_prediction(log, work.req, work.p,
                               dbWritable /\ tableExists, clock, model_info)
       IN  /\ log' = l.rows
           /\ IF l.raised
              THEN /\ pc' = "error"
                   /\ nreq' = nreq + 1
                   /\ last' = ErrorResponse(work, 500, "Prediction failed",
                                            "log", clock)
              ELSE /\ pc' = "logged"
                   /\ UNCHANGED <<nreq, last>>
    /\ UNCHANGED <<envVars, dbWritable, clock, storeVars, meterVars,
                   validationVars, tableExists, report, inflight, work>>

\* the counter is incremented, predict returns and the response is built
StepRespond ==
    /\ pc = "logged"
    /\ pc' = "responded"
    /\ predictions_total' =
           predictions_total + (IF METRICS_ENABLED THEN 1 ELSE 0)
    /\ nreq' = nreq + 1
    /\ last' = IF work.kind = "health"
               THEN [kind |-> "health", at |-> "done", status |-> 200,
                     body |-> [status |-> "healthy",
                               model_loaded |-> model # "None",
                               scaler_loaded |-> scaler # "None",
                               timestamp |-> clock]]
               ELSE [kind |-> "predict", req |-> work.req, at |-> "done",
                     status |-> 200,
                     body |-> PredictionResponse(work.p, model_info, clock)]
    /\ UNCHANGED <<envVars, dbWritable, clock, storeVars, log,
                   histogram_count, modelCalls, validationVars, tableExists,
                   report, inflight, work>>

\* the response has been sent
StepDone ==
    /\ pc \in {"responded", "error"}
    /\ pc' = "idle"
    /\ work' = NoWork
    /\ UNCHANGED <<envVars, dbWritable, clock, storeVars, log, meterVars,
                   nreq, last, validationVars, tableExists, report, inflight>>

NextSteps ==
    \/ Startup
    \/ \E kind \in {"predict", "health"}, req \in Requests, fault \in Faults :
          Receive(kind, req, fault)
    \/ StepValidate
    \/ StepEngineer
    \/ StepScale
    \/ StepInfer
    \/ StepLog
    \/ StepRespond
    \/ StepDone
    \/ SetLogWritable
    \/ Tick

SpecSteps == InitOps /\ [][NextSteps]_vars

\* ------------------------------------------- concurrent connections
\* the bodies sent on the connections: two valid ones and a rejected one
Bodies == {Canonical, Example, [Example EXCEPT !.AveOccup = 0]}

\* a connection is accepted and its body is read; its handler has not run
Accept(req, fault) ==
    /\ phase = "ready"
    /\ Len(inflight) < MaxRequests
    /\ inflight' = Append(inflight,
                          [req |-> req, fault |-> fault, status |-> 0])
    /\ UNCHANGED <<envVars, dbWritable, clock, storeVars, log, meterVars,
                   nreq, last, validationVars, tableExists, report, pc, work>>

ServeOverwrites(i) ==
    /\ phase = "ready"
    /\ i \in DOMAIN inflight
    /\ inflight[i].status = 0
    /\ nreq' = nreq + 1
    /\ LET c == inflight[i]
       IN  /\ IF ~Valid(c.req)
              THEN /\ last' = [kind |-> "predict", req |-> c.req,
                               at |-> "validation", status |-> 422,
                               body |-> [detail |-> Violations(c.req)]]
                   /\ UNCHANGED <<log, meterVars>>
              ELSE LET r == predict(c.req, c.fault)
                   IN  /\ log' = IF Len(r.rows) > 1 THEN Tail(r.rows)
                                 ELSE r.rows
                       /\ predictions_total' = r.total
                       /\ histogram_count' = r.hist
                       /\ modelCalls' = r.calls
                       /\ last' = IF r.exc # ""
                                  THEN [kind |-> "predict", req |-> c.req,
                                        at |-> r.at, status |-> 500,
                                        body |-> [detail |-> r.exc]]
                                  ELSE [kind |-> "predict", req |-> c.req,
                                        at |-> r.at, status |-> 200,
                                        body |-> PredictionResponse(r.value,
                                                     model_info, clock)]
           /\ inflight' = [inflight EXCEPT ![i] =
                              [req |-> c.req, fault |-> c.fault,
                               status |-> last'.status, body |-> last'.body,
                               accepting |-> dbWritable /\ tableExists]]
    /\ UNCHANGED <<envVars, dbWritable, clock, storeVars, validationVars,
                   tableExists, report, pc, work>>

\* the event loop runs the handler of one waiting connection, in any order
\* of the connections: predict_price is a coroutine without an await, so it
\* runs to its end before another handler starts.  The response is kept with
\* the connection, together with whether the log store took inserts then
Serve(i) ==
    /\ phase = "ready"
    /\ i \in DOMAIN inflight
    /\ inflight[i].status = 0
    /\ nreq' = nreq + 1
    /\ LET c == inflight[i]
       IN  /\ IF ~Valid(c.req)
              THEN /\ last' = [kind |-> "predict", req |-> c.req,
                               at |-> "validation", status |-> 422,
                               body |-> [detail |-> Violations(c.req)]]
                   /\ UNCHANGED <<log, meterVars>>
              ELSE LET r == predict(c.req, c.fault)
                   IN  /\ log' = r.rows
                       /\ predictions_total' = r.total
                       /\ histogram_count' = r.hist
                       /\ modelCalls' = r.calls
                       /\ last' = IF r.exc # ""
                                  THEN [kind |-> "predict", req |-> c.req,
                                        at |-> r.at, status |-> 500,
                                        body |-> [detail |-> r.exc]]
                                  ELSE [kind |-> "predict", req |-> c.req,
                                        at |-> r.at, status |-> 200,
                                        body |-> PredictionResponse(r.value,
                                                     model_info, clock)]
           /\ inflight' = [inflight EXCEPT ![i] =
                              [req |-> c.req, fault |-> c.fault,
                               status |-> last'.status, body |-> last'.body,
                               accepting |-> dbWritable /\ tableExists]]
    /\ UNCHANGED <<envVars, dbWritable, clock, storeVars, validationVars,
                   tableExists, report, pc, work>>

NextConc ==
    \/ Startup
    \/ \E req \in Bodies, fault \in {"none", "inference"} : Accept(req, fault)
    \/ \E i \in 1..MaxRequests : Serve(i)
    \/ SetLogWritable
    \/ Tick

SpecConc == InitOps /\ [][NextConc]_vars

\* ================================================================ claims
\* the ranges of the data model table (section 3 of the specification), in
\* tenths, as <<min, max>>
DeclaredRange ==
    [MedInc     |-> <<0, 150>>,
     HouseAge   |-> <<0, 1000>>,
     AveRooms   |-> <<10, 200>>,
     AveBedrms  |-> <<0, 50>>,
     Population |-> <<0, 500000>>,
     AveOccup   |-> <<5, 200>>,
     Latitude   |-> <<320, 420>>,
     Longitude  |-> <<-1250, -1140>>]

InDeclaredRange(f, v) == DeclaredRange[f][1] <= v /\ v <= DeclaredRange[f][2]

OutOfRange(req) == {f \in FieldSet : ~InDeclaredRange(f, req[f])}

\* the log store accepts an INSERT: it is writable and holds the table
LogAccepts == dbWritable /\ tableExists

\* this step handled a request of one of the kinds
Handled(kinds) == nreq' = nreq + 1 /\ last'.kind \in kinds

\* this step is a POST /predict answered with 200
Predicted200 == Handled({"predict"}) /\ last'.status = 200

\* the prediction the pipeline computes for a request
Expected(req) == ModelPredict(model, preprocess_input(req, scaler))

\* ---- C1
\* C1 as stated: every POST /predict that returns 200 adds exactly one new
\* row to the prediction log, and the row's prediction equals the prediction
\* of the response body (thousandths against hundredths).
C1_OneRowSamePrediction ==
    [][Predicted200 =>
          /\ Len(log') = Len(log) + 1
          /\ log'[Len(log')].prediction = 10 * last'.body.prediction]_vars

\* C1 amended: a POST /predict that returns 200 adds exactly one new row
\* when the log store accepts the insert and none when it does not; the
\* rows already there are kept, and the new row holds the request's input
\* and a prediction that, rounded to two decimals, is the prediction of the
\* response body.
C1_OneRowWhenWritable ==
    [][Predicted200 =>
          IF LogAccepts
          THEN /\ Len(log') = Len(log) + 1
               /\ SubSeq(log', 1, Len(log)) = log
               /\ log'[Len(log')].input_features = last'.req
               /\ RoundHalfEven(log'[Len(log')].prediction, 10)
                      = last'.body.prediction
          ELSE log' = log]_vars

\* a 200 whose row holds a value that differs from the rounded response
C1_Witness ==
    /\ nreq = 1
    /\ last.kind = "predict"
    /\ last.status = 200
    /\ Len(log) = 1
    /\ log[1].input_features = last.req
    /\ log[1].prediction # 10 * last.body.prediction

\* ---- C2
NoModelResolvable == registry = "fail" /\ \A n \in ModelNames : files[n] = "absent"

\* C2: when the registry load fails and none of the three model files
\* exists, construction raises and the service never accepts requests.
C2_NoModelIsFatal == NoModelResolvable => phase # "ready"

\* ---- C3
SomeModelResolvable == registry = "ok" \/ \E n \in ModelNames : files[n] = "ok"

\* C3: whenever the registry or at least one local model file can yield a
\* model, initialization completes, whatever the other model files and the
\* scaler artifact are.
C3_FatalOnlyWithoutModel == SomeModelResolvable => phase # "failed"

\* ---- C4
\* C4: GET /health, GET /model/info and GET /metrics append no row to the
\* prediction log and change neither the Model Store nor predictions_total.
C4_ReportersReadOnly ==
    [][Handled({"health", "info", "metrics"}) =>
          /\ log' = log
          /\ predictions_total' = predictions_total
          /\ UNCHANGED storeVars]_vars

\* ---- C5
\* C5: a POST /predict with a field outside its constraint is answered 422
\* and nothing else happens: the model is not invoked, no row is appended,
\* predictions_total and the histogram are unchanged.
C5_InvalidRejectedFirst ==
    [][(Handled({"predict"}) /\ OutOfRange(last'.req) # {}) =>
          /\ last'.status = 422
          /\ modelCalls' = modelCalls
          /\ log' = log
          /\ predictions_total' = predictions_total
          /\ histogram_count' = histogram_count]_vars

\* a rejected request on a service that holds a model and a writable log
C5_Witness ==
    /\ last.kind = "predict"
    /\ last.status = 422
    /\ OutOfRange(last.req) # {}
    /\ model # "None"
    /\ dbWritable
    /\ log = <<>>

\* ---- C6
\* C6: with an unwritable log store, a POST /predict with valid input whose
\* preprocessing and inference do not raise returns 200 with the response
\* it would have had with a writable log; nothing is appended.
C6_LogFailureSwallowed ==
    [][(/\ Handled({"predict"})
        /\ OutOfRange(last'.req) = {}
        /\ model # "None"
        /\ ~dbWritable
        /\ last'.at \notin {"preprocess", "inference"}) =>
          /\ last'.status = 200
          /\ last'.body = PredictionResponse(Expected(last'.req), model_info,
                                             clock)
          /\ log' = log]_vars

\* a 200 that left no row behind
C6_Witness ==
    /\ nreq = 1
    /\ last.kind = "predict"
    /\ last.status = 200
    /\ log = <<>>
    /\ last.body.prediction = RoundHalfEven(Expected(last.req), 10)

\* ---- C7
OthersInRange(f) ==
    \A g \in FieldSet \ {f} : InDeclaredRange(g, candidate[g])

\* C7: for each of the eight fields, a value equal to the minimum or the
\* maximum is accepted when the other fields are valid, and a value one
\* unit below the minimum or one unit above the maximum is rejected with an
\* error naming the field.
C7_BoundsInclusive ==
    validation.done =>
        \A f \in FieldSet :
            /\ (/\ candidate[f] \in {DeclaredRange[f][1], DeclaredRange[f][2]}
                /\ OthersInRange(f)) => validation.ok
            /\ candidate[f] \in {DeclaredRange[f][1] - 10,
                                 DeclaredRange[f][2] + 10} =>
                   (~validation.ok /\ f \in validation.errors)

\* every field at its minimum: accepted
C7_Witness ==
    /\ validation.done
    /\ validation.ok
    /\ \A f \in FieldSet : candidate[f] = DeclaredRange[f][1]

\* ---- C8
\* C8: a request with AveOccup = 0 is rejected with a validation error
\* naming AveOccup, whatever the other seven fields are.
C8_ZeroOccupRejected ==
    (validation.done /\ candidate.AveOccup = 0) =>
        (~validation.ok /\ "AveOccup" \in validation.errors)

\* AveOccup = 0 is the only thing wrong with the request
C8_Witness ==
    /\ validation.done
    /\ candidate.AveOccup = 0
    /\ OthersInRange("AveOccup")
    /\ validation.errors = {"AveOccup"}

\* ---- C9
\* C9: a request is accepted exactly when every field is in its declared
\* range, and a rejection names every field that is out of range.
C9_AllViolationsReported ==
    validation.done =>
        /\ validation.ok <=> OutOfRange(candidate) = {}
        /\ ~validation.ok => validation.errors = OutOfRange(candidate)

\* a rejection that names all eight fields
C9_Witness ==
    /\ validation.done
    /\ ~validation.ok
    /\ validation.errors = FieldSet

\* ---- C10
\* C10: every POST /predict ends in exactly one of 422 (validation fails),
\* 500 (valid, but the model is absent or the prediction raises) and 200
\* with prediction, model_version, timestamp and confidence_interval
\* {lower, upper} (every other case); the service stays up and its model
\* store is untouched whatever the outcome.
C10_ThreeOutcomes ==
    [][Handled({"predict"}) =>
          /\ last'.status =
                IF OutOfRange(last'.req) # {} THEN 422
                ELSE IF model = "None"
                        \/ last'.at \in {"preprocess", "inference"} THEN 500
                ELSE 200
          /\ last'.status = 200 =>
                /\ DOMAIN last'.body = {"prediction", "model_version",
                                        "timestamp", "confidence_interval"}
                /\ DOMAIN last'.body.confidence_interval = {"lower", "upper"}
          /\ phase' = "ready"
          /\ UNCHANGED storeVars]_vars

\* a second request answered by a service that has no model
C10_Witness ==
    /\ phase = "ready"
    /\ model = "None"
    /\ nreq = 2
    /\ last.kind = "predict"
    /\ last.status = 500
    /\ last.body.detail = "Model not loaded"

\* ---- C11
Abs(x) == IF x < 0 THEN -x ELSE x

\* C11: GET /health reports healthy exactly when the model is loaded and
\* neither preprocessing nor inference raises for the fixed input, and
\* unhealthy otherwise; a healthy answer comes from one run of the predict
\* pipeline on that input (the model is invoked once and, the log being
\* writable, the row of that input and its prediction is appended).
C11_HealthyIffSyntheticPredictionWorks ==
    [][Handled({"health"}) =>
          /\ last'.body.status \in {"healthy", "unhealthy"}
          /\ last'.body.status = "healthy" <=>
                (model # "None" /\ last'.at \notin {"preprocess", "inference"})
          /\ last'.body.status = "healthy" =>
                /\ modelCalls' = modelCalls + 1
                /\ LogAccepts =>
                      /\ Len(log') = Len(log) + 1
                      /\ log'[Len(log')].input_features = Canonical
                      /\ log'[Len(log')].prediction = Expected(Canonical)]_vars

\* a healthy answer that ran the pipeline on the fixed input
C11_Witness ==
    /\ nreq = 1
    /\ last.kind = "health"
    /\ last.body.status = "healthy"
    /\ modelCalls = 1
    /\ Len(log) = 1
    /\ log[1].input_features = Canonical

\* ---- C12
\* C12: every GET /health response has HTTP status 200 and carries the
\* fields status, model_loaded, scaler_loaded and timestamp.
C12_HealthBodyFields ==
    [][Handled({"health"}) =>
          /\ last'.status = 200
          /\ {"status", "model_loaded", "scaler_loaded", "timestamp"}
                 \subseteq DOMAIN last'.body]_vars

\* ---- C13
\* the preference order of the specification: gradient-boosted ensemble,
\* random-forest ensemble, linear model
ClaimedOrder == <<"gradient_boosting", "random_forest", "linear_regression">>

\* C13: once the service is ready, the current model is the registry's when
\* the registry load succeeded, whatever the local files are; when it
\* failed, the current model is the first existing file of the order
\* gradient_boosting, random_forest, linear_regression (none when no file
\* exists), and the version reported follows the source.
C13_ResolutionPrecedence ==
    phase = "ready" =>
        /\ registry = "ok" =>
              (model = "registry" /\ model_info["version"] = "Production")
        /\ registry = "fail" =>
              /\ model # "registry"
              /\ \A i \in 1..3 :
                    model = ClaimedOrder[i] =>
                        /\ files[ClaimedOrder[i]] = "ok"
                        /\ \A k \in 1..(i - 1) :
                              files[ClaimedOrder[k]] = "absent"
                        /\ model_info["version"] = "1.0.0"
              /\ model = "None" =>
                    \A i \in 1..3 : files[ClaimedOrder[i]] = "absent"

\* the registry failed, the first file is missing and two later ones exist
C13_Witness ==
    /\ phase = "ready"
    /\ registry = "fail"
    /\ files["gradient_boosting"] = "absent"
    /\ files["random_forest"] = "ok"
    /\ files["linear_regression"] # "absent"
    /\ model = "random_forest"

\* ---- C14
\* x (hundredths) is n / 1000 rounded to the nearest hundredth
NearestHundredth(x, n) == 2 * Abs(1000 * x - n) <= 1000

\* C14: in every 200 of /predict, confidence_interval.lower is p * 0.85 and
\* upper is p * 1.15, each rounded to two decimals, p being the value the
\* model returned for the request (thousandths).
C14_IntervalFromModelValue ==
    [][Predicted200 =>
          LET p  == Expected(last'.req)
              ci == last'.body.confidence_interval
          IN  /\ NearestHundredth(ci.lower, 85 * p)
              /\ NearestHundredth(ci.upper, 115 * p)]_vars

\* a 200 whose interval differs from the one of the rounded prediction
C14_Witness ==
    /\ last.kind = "predict"
    /\ last.status = 200
    /\ ~NearestHundredth(last.body.confidence_interval.lower,
                         850 * last.body.prediction)

RequestKinds == {"predict", "health", "info", "metrics"}

\* the store a fresh start builds from the registry and the files
Fresh == load_model(registry, files, scalerFile, 0)

\* C17: no request, whatever its kind and outcome, changes the current
\* model, the scaler, the model metadata or the feature list, and the
\* prediction of a 200 is the one the store loaded at startup gives for the
\* request's input, whatever requests failed before it.
C17_StoreReadOnly ==
    [][/\ Handled(RequestKinds) =>
             UNCHANGED <<model, scaler, model_info, feature_names>>
       /\ Predicted200 =>
             last'.body.prediction =
                 RoundHalfEven(ModelPredict(Fresh.model,
                                   preprocess_input(last'.req, Fresh.scaler)),
                               10)]_vars

\* a 200 served with the scaler after a request whose inference raised
C17_Witness ==
    /\ METRICS_ENABLED
    /\ scaler # "None"
    /\ nreq = 2
    /\ modelCalls = 2
    /\ predictions_total = 1
    /\ last.kind = "predict"
    /\ last.status = 200

\* ---- C18
\* C18: predictions_total grows by one with every POST /predict answered
\* 200 and with nothing else, so it equals the number of those answers.
C18_CounterCountsPredict200 ==
    [][METRICS_ENABLED =>
          predictions_total' =
              predictions_total + (IF Predicted200 THEN 1 ELSE 0)]_vars

\* ---- C19
\* C19: GET /metrics returns status 200 with a text/plain body, whether or
\* not the metric collectors could be initialised.
C19_MetricsPlainText ==
    [][Handled({"metrics"}) =>
          (last'.status = 200 /\ last'.media_type = "text/plain")]_vars

\* ---- C16
\* C16: whatever the core does (predict requests, health checks, restarts
\* with setup_database, monitor queries and exports), the rows of the
\* prediction log stay where they are with unchanged timestamp,
\* input_features, prediction and model_version, and row ids are strictly
\* increasing in insertion order.
C16_LogAppendOnly ==
    [][/\ Len(log') >= Len(log)
       /\ SubSeq(log', 1, Len(log)) = log
       /\ \A i \in 1..(Len(log') - 1) : log'[i].id < log'[i + 1].id]_vars

\* a service started after the second row was written, and an export of
\* the two rows
C16_Witness ==
    /\ phase = "ready"
    /\ Len(log) = 2
    /\ model_info["last_updated"] > log[2].timestamp
    /\ report.op = "export"
    /\ "rows" \in DOMAIN report
    /\ Len(report.rows) = 2

\* ---- C20
\* the states of a request in the order of the specification
StepOrder == <<"received", "validated", "engineered", "scaled", "inferred",
               "logged", "responded">>

\* C20: a request goes through validation, feature engineering, scaling,
\* inference, logging and response in that order, one step at a time, or
\* leaves for Error; a row is appended only by the log step of a request
\* whose inference returned, a response is emitted only on leaving the log
\* step or on entering Error, and nothing happens to a request in Error.
C20_StepsInOrder ==
    [][/\ pc' # pc =>
             \/ pc = "idle" /\ pc' = "received"
             \/ \E i \in 1..6 :
                   pc = StepOrder[i] /\ pc' \in {StepOrder[i + 1], "error"}
             \/ pc \in {"responded", "error"} /\ pc' = "idle"
       /\ log' # log =>
             /\ pc = "inferred"
             /\ pc' = "logged"
             /\ work.fault = "none"
             /\ log' = Append(log, log'[Len(log')])
             /\ log'[Len(log')].prediction = Expected(work.req)
       /\ last' # last =>
             \/ pc = "logged" /\ pc' = "responded"
             \/ pc # "error" /\ pc' = "error"
       /\ pc = "error" =>
             UNCHANGED <<log, meterVars, last, nreq, storeVars>>]_vars

\* a request that went through every step and left a row
C20_Witness ==
    /\ pc = "responded"
    /\ work.kind = "predict"
    /\ last.status = 200
    /\ Len(log) = 1
    /\ log[1].input_features = work.req

\* ---- C21
\* the connections answered with 200
Succeeded == {i \in DOMAIN inflight : inflight[i].status = 200}

\* C21: when the POST /predict requests that succeeded all ran against a
\* log store that took inserts, however their handling was interleaved, the
\* log holds exactly one row for each of them: as many rows as successes,
\* pairwise distinct ids, and a one-to-one assignment of rows to successful
\* requests in which each row carries the input and the prediction of its
\* request.
C21_NoLostOrMixedAppends ==
    (\A i \in Succeeded : inflight[i].accepting) =>
        /\ Len(log) = Cardinality(Succeeded)
        /\ \A j, k \in DOMAIN log : j # k => log[j].id # log[k].id
        /\ \E f \in [DOMAIN log -> Succeeded] :
              /\ \A j, k \in DOMAIN log : j # k => f[j] # f[k]
              /\ \A j \in DOMAIN log :
                    /\ log[j].input_features = inflight[f[j]].req
                    /\ log[j].prediction = Expected(inflight[f[j]].req)
                    /\ RoundHalfEven(log[j].prediction, 10)
                           = inflight[f[j]].body.prediction

\* two requests with different inputs, both answered 200, handled in the
\* reverse of the order in which they were accepted
C21_Witness ==
    /\ Len(inflight) = 2
    /\ Succeeded = {1, 2}
    /\ inflight[1].accepting /\ inflight[2].accepting
    /\ inflight[1].req # inflight[2].req
    /\ Len(log) = 2
    /\ log[1].input_features = inflight[2].req
    /\ log[2].input_features = inflight[1].req

\* ---- C22
\* C22: for every validated input AveOccup >= 0.5 and AveRooms >= 1, so the
\* three ratios AveRooms/AveOccup, AveBedrms/AveRooms and
\* Population/AveOccup are defined, nothing is substituted for them, and the
\* columns handed to the model hold those quotients and no NaN.
C22_EngineeringTotalOnValidated ==
    work.kind = "engineered" =>
        /\ candidate.AveOccup >= 5
        /\ candidate.AveRooms >= 10
        /\ \A k \in 1..3 : ~work.derived[k].nan
        /\ work.X.nan = {}
        /\ work.X.vals[9] = (candidate.AveRooms * 10) \div candidate.AveOccup
        /\ work.X.vals[10] =
               (candidate.AveBedrms * 10) \div candidate.AveRooms
        /\ work.X.vals[11] =
               (candidate.Population * 10) \div candidate.AveOccup

\* the smallest denominators validation lets through, with a zero numerator
C22_Witness ==
    /\ work.kind = "engineered"
    /\ candidate.AveOccup = 5
    /\ candidate.AveRooms = 10
    /\ candidate.AveBedrms = 0
    /\ work.X.vals[9] = 20
    /\ work.X.vals[10] = 0

\* ---- C23
\* the rows of the log written at or after time t
NotOlderThan(t) ==
    {log[i] : i \in {j \in 1..Len(log) : log[j].timestamp >= t}}

\* C23: what get_prediction_stats and export_logs read from the log is
\* exactly the rows whose timestamp is at or after the threshold, none
\* missing, none older and none twice, newest first; "no data" is reported
\* exactly when there is no such row.
C23_QueryExactNewestFirst ==
    /\ (report.op = "export" /\ "rows" \in DOMAIN report) =>
          LET q == report.rows
          IN  /\ {q[i] : i \in 1..Len(q)} = NotOlderThan(report.since)
              /\ Len(q) = Cardinality(NotOlderThan(report.since))
              /\ \A i \in 1..(Len(q) - 1) :
                    q[i].timestamp >= q[i + 1].timestamp
    /\ (report.op = "stats" /\ "total_predictions" \in DOMAIN report) =>
          /\ report.total_predictions
                 = Cardinality(NotOlderThan(report.since))
          /\ \A r \in NotOlderThan(report.since) :
                 report.start <= r.timestamp /\ r.timestamp <= report.end
    /\ (report.op \in {"export", "stats"} /\ "message" \in DOMAIN report) =>
          NotOlderThan(report.since) = {}

\* an export that leaves out an older row, keeps the row written exactly at
\* the threshold and puts a newer row, written later, before it
C23_Witness ==
    /\ report.op = "export"
    /\ "rows" \in DOMAIN report
    /\ Len(log) = 3
    /\ Len(report.rows) = 2
    /\ report.rows[2].timestamp = report.since
    /\ report.rows[1].timestamp > report.since
    /\ report.rows[1].id > report.rows[2].id

C25_NoNaNAfterPreprocessing ==
    work.kind = "preprocessed" =>
        /\ \A c \in 1..3 :
              \E i \in 1..Len(work.out.columns) :
                  work.out.columns[i] = DerivedColumns[c]
        /\ \A k \in 1..Len(work.out.rows) :
              \A i \in 1..Len(work.out.columns) : ~work.out.rows[k][i].nan

\* ---- C26
\* C26: in every successful /predict response lower <= upper, whatever
\* value the model returned, and when the prediction is positive also
\* 0 < lower < upper.
C26_IntervalWellOrdered ==
    work.kind = "answered" =>
        LET b == last.body
        IN  /\ b.confidence_interval.lower <= b.confidence_interval.upper
            /\ b.prediction > 0 =>
                   /\ 0 < b.confidence_interval.lower
                   /\ b.confidence_interval.lower
                          < b.confidence_interval.upper

\* ---- C27
\* C27: for a single validated request, preprocess_input and
\* preprocess_data applied to the same row give the same 11 values in the
\* same column order, and that order is the feature_names list the service
\* advertises.
C27_ServingMatchesTraining ==
    work.kind = "served" =>
        /\ work.columns = work.out.columns
        /\ work.columns = FeatureNames
        /\ work.frame.nan = {}
        /\ \A i \in 1..11 :
              /\ ~work.out.rows[1][i].nan
              /\ work.frame.vals[i] = work.out.rows[1][i].v

\* the request of the tests, put through both
C27_Witness ==
    /\ work.kind = "served"
    /\ work.X = <<Example>>
    /\ work.frame.vals[10] = 1
    /\ work.out.rows[1][10].v = 1

\* ---- C28
\* C28: the health score is 100, less 30 when there is no prediction in the
\* last day or else less 10 when there are fewer than 10, less 20 when
\* drift is detected; the status is healthy from 90, warning from 70 and
\* critical below, so critical is reported exactly when there is no
\* prediction in the last day and drift is detected.
C28_HealthScoreAndStatus ==
    report.op = "health" =>
        LET n == Cardinality(NotOlderThan(clock - TicksPerDay))
            drift == Get(report.drift_info, "drift_detected", FALSE)
            score == 100
                     - (IF n = 0 THEN 30 ELSE IF n < 10 THEN 10 ELSE 0)
                     - (IF drift THEN 20 ELSE 0)
        IN  /\ report.health_score = score
            /\ report.status \in {"healthy", "warning", "critical"}
            /\ report.status = "healthy" <=> score >= 90
            /\ report.status = "warning" <=> (70 <= score /\ score < 90)
            /\ report.status = "critical" <=> (n = 0 /\ drift)

\* no prediction in the last day, and drift between the two windows
C28_Witness ==
    /\ report.op = "health"
    /\ report.status = "critical"
    /\ report.health_score = 50
    /\ NotOlderThan(clock - TicksPerDay) = {}
    /\ report.drift_info.drift_detected

\* ---- C29
\* the rows of the log written before time t
OlderThan(t) == {log[i] : i \in {j \in 1..Len(log) : log[j].timestamp < t}}

\* C29: when the rows at or after now - 7d and the rows before now - 14d
\* are both present, drift_detected is true exactly when
\* |recent_mean - older_mean| > 0.1 * |older_mean| with older_mean # 0, the
\* drift_score is not negative, and no row is in both windows (the means
\* are fractions num / den of a sum and a count).
C29_DriftIffRelativeShift ==
    (report.op = "drift" /\ "drift_detected" \in DOMAIN report) =>
        LET rm == report.recent_mean
            om == report.older_mean
        IN  /\ rm.den = Cardinality(NotOlderThan(clock - 7 * TicksPerDay))
            /\ om.den = Cardinality(OlderThan(clock - 14 * TicksPerDay))
            /\ NotOlderThan(clock - 7 * TicksPerDay)
                   \cap OlderThan(clock - 14 * TicksPerDay) = {}
            /\ report.drift_detected <=>
                   /\ om.num # 0
                   /\ 10 * Abs(rm.num * om.den - om.num * rm.den)
                          > rm.den * Abs(om.num)
            /\ report.drift_score.num = 0 \/ report.drift_score.den > 0

\* ---- C30
\* this step is a call of predict whose model invocation raised
InferenceRaised == Handled({"predict", "health"}) /\ last'.at = "inference"

\* C30: between requests the histogram holds at least as many observations
\* as predictions_total counts, and each request changes their difference
\* by one exactly when its model invocation raised; a restart sets both to
\* zero.
C30_TimerCountsFailedInference ==
    [][METRICS_ENABLED =>
          /\ histogram_count' >= predictions_total'
          /\ IF phase' = "init"
             THEN histogram_count' = 0 /\ predictions_total' = 0
             ELSE histogram_count' - predictions_total' =
                      (histogram_count - predictions_total)
                      + (IF InferenceRaised THEN 1 ELSE 0)]_vars

\* a prediction that was returned and one whose model invocation raised
C30_Witness ==
    /\ METRICS_ENABLED
    /\ histogram_count = 2
    /\ predictions_total = 1
    /\ modelCalls = 2
    /\ last.kind = "predict"
    /\ last.at = "inference"

====
